---- MODULE Spec2Model ----
(***************************************************************************)
(* Model of src/etl.py: the Sparkify ETL that turns the song catalog and   *)
(* the activity log into the star schema songs / artists / users / time /  *)
(* songplays.                                                              *)
(*                                                                         *)
(* A DataFrame is a sequence of rows (records) in ingestion order, a       *)
(* pandas table produced by a "select distinct on" query and a persisted   *)
(* parquet table are bags of rows.  A nullable column holds <<>> for NULL  *)
(* and <<v>> for the value v.                                              *)
(***************************************************************************)
EXTENDS Integers, Sequences, FiniteSets, Bags, TLC

VARIABLES catalog, events, tz, pc, run, views, df, song_df,
          tables, songplays_table, store, written

vars == <<catalog, events, tz, pc, run, views, df, song_df,
          tables, songplays_table, store, written>>

\* ------------------------------------------------------------- bounds
MaxCatalog == 2
MaxEvents == 2
MaxRuns == 2
MaxPartitions == 2

\* ------------------------------------------------------------ helpers
Null == <<>>
Some(x) == <<x>>

Range(s) == {s[i] : i \in DOMAIN s}

BagOfSeq(s) == [x \in Range(s) |-> Cardinality({i \in DOMAIN s : s[i] = x})]

\* bag B holds exactly one row r with r[col] = k, once
OneRowWithKey(B, col, k) ==
    \E r \in DOMAIN B :
        /\ r[col] = k
        /\ B[r] = 1
        /\ \A q \in DOMAIN B : q[col] = k => q = r

\* bag B holds no row r with r[col] = k
NoRowWithKey(B, col, k) == \A r \in DOMAIN B : r[col] # k

Project(r, cols) == [c \in cols |-> r[c]]

ProjectAll(rows, cols) == [i \in DOMAIN rows |-> Project(rows[i], cols)]

\* ------------------------------------------------------ the input feeds
CatalogRecord(sid, title, aid, aname, dur) ==
    [song_id |-> sid, title |-> Some(title), artist_id |-> aid,
     artist_name |-> Some(aname), artist_location |-> "loc",
     artist_latitude |-> 0, artist_longitude |-> 0,
     year |-> 2000, duration |-> Some(dur)]

EventRecord(ts, page, uid, level, artist, song, length) ==
    [ts |-> ts, page |-> page, userId |-> uid, firstName |-> "fn",
     lastName |-> "ln", gender |-> "F", level |-> level,
     song |-> song, artist |-> artist, length |-> length,
     sessionId |-> 139, location |-> "loc", userAgent |-> "ua"]

\* Catalog records the feed may deliver: a song, the same song_id and
\* artist_id again with other attributes, and another song of another
\* artist with the same (artist_name, title, duration) as the first.
CatalogPool ==
    { CatalogRecord("S1", "T1", "A1", "N1", 210),
      CatalogRecord("S1", "T2", "A1", "N2", 215),
      CatalogRecord("S2", "T1", "A2", "N1", 210) }

\* Events the feed may deliver: two plays of one user at two levels within
\* the same second, a page view without song columns, and a play an hour
\* later whose length is off by one from the catalog's duration.
EventPool ==
    { EventRecord(1500, "NextSong", "U1", "free", Some("N1"), Some("T1"), Some(210)),
      EventRecord(1900, "NextSong", "U1", "paid", Some("N2"), Some("T2"), Some(215)),
      EventRecord(1700, "Home", "U2", "free", Null, Null, Null),
      EventRecord(3600500, "NextSong", "U2", "free", Some("N1"), Some("T1"), Some(211)) }

\* offsets (seconds) of the machine's local time zone
TimeZones == {0, 0 - 3600}

\* -------------------------------------------------- names of the tables
TableOrder == <<"songs", "artists", "users", "time", "songplays">>
TableNames == Range(TableOrder)
ViewNames == {"songs_table", "artists_table", "users_table", "time_table",
              "songplays_table"}

SongCols == {"song_id", "title", "artist_id", "year", "duration"}
ArtistCols == {"artist_id", "artist_name", "artist_location",
               "artist_latitude", "artist_longitude"}
UserCols == {"userId", "firstName", "lastName", "gender", "level"}
TimeCols == {"start_time", "hour", "day", "week", "month", "year", "weekday"}

\* ------------------------------------------------- SQL on DataFrames
\* "select distinct on (key) key, ..." over the projected rows: one row per
\* distinct key; which of the rows with that key is kept is not determined
\* (the query has no ORDER BY), so every choice is a possible result.
DistinctOn_allColumns(rows, key) == {SetToBag(Range(rows))}

DistinctOn_keepAll(rows, key) == {BagOfSeq(rows)}

DistinctOn_perColumn(rows, key) ==
    LET keys == {rows[i][key] : i \in DOMAIN rows}
        first(k) == CHOOSE i \in DOMAIN rows :
                       rows[i][key] = k /\ \A j \in 1..(i - 1) : rows[j][key] # k
        last(k) == CHOOSE i \in DOMAIN rows :
                      rows[i][key] = k /\ \A j \in (i + 1)..Len(rows) : rows[j][key] # k
        cols == UNION {DOMAIN rows[i] : i \in DOMAIN rows}
    IN { SetToBag({[c \in cols |-> IF c \in A THEN rows[first(k)][c]
                                   ELSE rows[last(k)][c]] : k \in keys})
         : A \in SUBSET cols }

DistinctOn(rows, key) ==
    LET keys == {rows[i][key] : i \in DOMAIN rows}
        picks == {g \in [keys -> DOMAIN rows] : \A k \in keys : rows[g[k]][key] = k}
    IN { SetToBag({rows[g[k]] : k \in keys}) : g \in picks }

\* SQL equality: never true on NULL
SqlEq(a, b) == a # Null /\ b # Null /\ a = b

\* df[df["page"] == "NextSong"]
NextSongFilter_none(rows) == rows

NextSongFilter(rows) == SelectSeq(rows, LAMBDA r : r.page = "NextSong")

\* ------------------------------------------- timestamp decomposition
\* datetime.fromtimestamp(x/1000.0): the local calendar fields of epoch
\* milliseconds x in the zone at offset off (seconds).
DaysBeforeMonth(y, m) ==
    LET leap == (y % 4 = 0 /\ y % 100 # 0) \/ y % 400 = 0
        cum == <<0, 31, 59, 90, 120, 151, 181, 212, 243, 273, 304, 334>>
    IN cum[m] + (IF leap /\ m > 2 THEN 1 ELSE 0)

fromtimestamp(x, off) ==
    LET secs == (x \div 1000) + off
        days == secs \div 86400
        sod == secs % 86400
        z == days + 719468
        era == z \div 146097
        doe == z - era * 146097
        yoe == (doe - (doe \div 1460) + (doe \div 36524) - (doe \div 146096)) \div 365
        doy == doe - (365 * yoe + (yoe \div 4) - (yoe \div 100))
        mp == (5 * doy + 2) \div 153
        d == doy - ((153 * mp + 2) \div 5) + 1
        m == IF mp < 10 THEN mp + 3 ELSE mp - 9
        y == yoe + era * 400 + (IF m <= 2 THEN 1 ELSE 0)
    IN [year |-> y, month |-> m, day |-> d,
        hour |-> sod \div 3600, minute |-> (sod % 3600) \div 60,
        second |-> sod % 60,
        wday |-> (days + 3) % 7,
        yday |-> DaysBeforeMonth(y, m) + d - 1]

\* int(int(x)/1000.0): truncation toward zero
get_timestamp(x) == IF x >= 0 THEN x \div 1000 ELSE 0 - ((0 - x) \div 1000)

\* strftime("%Y-%m-%d %H:%M:%S"): the six fields, the milliseconds dropped
get_datetime(x, off) ==
    LET t == fromtimestamp(x, off)
    IN <<t.year, t.month, t.day, t.hour, t.minute, t.second>>

get_hour(x, off) == fromtimestamp(x, off).hour
get_day(x, off) == fromtimestamp(x, off).day
get_month(x, off) == fromtimestamp(x, off).month
get_year(x, off) == fromtimestamp(x, off).year

\* strftime('%W'): week of the year, Monday first, as two decimal digits
get_week(x, off) ==
    LET t == fromtimestamp(x, off)
        w == (t.yday + 7 - t.wday) \div 7
    IN <<w \div 10, w % 10>>

\* strftime('%A')
get_weekday(x, off) ==
    <<"Monday", "Tuesday", "Wednesday", "Thursday", "Friday", "Saturday",
      "Sunday">>[fromtimestamp(x, off).wday + 1]

WithTimeColumns(r, off) ==
    r @@ [timestamp |-> get_timestamp(r.ts),
          start_time |-> get_datetime(r.ts, off),
          hour |-> get_hour(r.ts, off),
          day |-> get_day(r.ts, off),
          week |-> get_week(r.ts, off),
          month |-> get_month(r.ts, off),
          year |-> get_year(r.ts, off),
          weekday |-> get_weekday(r.ts, off)]

\* ------------------------------------------------------ songplay ids
\* F.monotonically_increasing_id(): partition index in the upper bits, row
\* index within the partition in the lower 33 bits; kept as the pair
\* <<partition, index>>, compared as the 64-bit number is.
IdLess(a, b) == a[1] < b[1] \/ (a[1] = b[1] /\ a[2] < b[2])

\* the ways n rows in order lie in partitions 0 .. MaxPartitions-1
Partitionings(n) ==
    {p \in [1..n -> 0..(MaxPartitions - 1)] :
        \A i \in 1..n : \A j \in 1..n : i < j => p[i] <= p[j]}

monotonically_increasing_id(p, i) ==
    <<p[i], Cardinality({j \in 1..(i - 1) : p[j] = p[i]})>>

WithSongplayId(rows, p) ==
    [i \in DOMAIN rows |->
        rows[i] @@ [songplay_id |-> monotonically_increasing_id(p, i)]]

\* ---------------------------------------------------- the songplays join
\* on sp.artist=s.artist_name and sp.song=s.title and sp.length=s.duration
JoinCondition_noLength(sp, s) ==
    SqlEq(sp.artist, s.artist_name) /\ SqlEq(sp.song, s.title)

JoinCondition(sp, s) ==
    /\ SqlEq(sp.artist, s.artist_name)
    /\ SqlEq(sp.song, s.title)
    /\ SqlEq(sp.length, s.duration)

\* the select list of the songplays query
SongplayRow_swapped(sp, s) ==
    [songplay_id |-> sp.songplay_id, start_time |-> sp.start_time,
     user_id |-> sp.userId, level |-> sp.level,
     song_id |-> s.artist_id, artist_id |-> s.song_id,
     session_id |-> sp.sessionId, location |-> sp.location,
     user_agent |-> sp.userAgent, year |-> sp.year, month |-> sp.month]

SongplayRow(sp, s) ==
    [songplay_id |-> sp.songplay_id, start_time |-> sp.start_time,
     user_id |-> sp.userId, level |-> sp.level,
     song_id |-> s.song_id, artist_id |-> s.artist_id,
     session_id |-> sp.sessionId, location |-> sp.location,
     user_agent |-> sp.userAgent, year |-> sp.year, month |-> sp.month]

RECURSIVE JoinOne(_, _)
\* the rows one event contributes: one per matching catalog row
JoinOne(sp, S) ==
    IF S = <<>> THEN <<>>
    ELSE (IF JoinCondition(sp, Head(S)) THEN <<SongplayRow(sp, Head(S))>>
          ELSE <<>>) \o JoinOne(sp, Tail(S))

JoinOne_left(sp, S) ==
    IF JoinOne(sp, S) = <<>>
    THEN <<SongplayRow(sp, [song_id |-> "null", artist_id |-> "null"])>>
    ELSE JoinOne(sp, S)

EventJoin(sp, S) == JoinOne(sp, S)

RECURSIVE InnerJoin(_, _)
\* songplays_table sp join songs_table s, rows in the order of sp
InnerJoin(L, S) ==
    IF L = <<>> THEN <<>>
    ELSE EventJoin(Head(L), S) \o InnerJoin(Tail(L), S)

\* ------------------------------------------------------ parquet writes
\* to_parquet(path) without partition_cols: one file at path, replaced
WriteFile(old, rows) == rows

\* to_parquet(path, partition_cols=...): a dataset directory; every call
\* adds new, uniquely named files under the partition directories and
\* leaves the files already there in place
WriteDataset(old, rows) == old (+) rows

\* an exception of to_parquet is not caught: the run ends there
OnWriteError_continue(next) == next

OnWriteError(next) == "failed"

\* ------------------------------------------------------- the pipeline
DimNames == {"songs", "artists", "users", "time"}

Init ==
    /\ catalog = <<>>
    /\ events = <<>>
    /\ tz \in TimeZones
    /\ pc = "idle"
    /\ run = 0
    /\ views = [v \in ViewNames |-> <<>>]
    /\ df = <<>>
    /\ song_df = <<>>
    /\ tables = [t \in DimNames |-> EmptyBag]
    /\ songplays_table = <<>>
    /\ store = [t \in TableNames |-> EmptyBag]
    /\ written = <<>>

\* a file arrives under song_data/ before the run
IngestCatalog ==
    /\ pc = "idle"
    /\ Len(catalog) < MaxCatalog
    /\ \E r \in CatalogPool : catalog' = Append(catalog, r)
    /\ UNCHANGED <<events, tz, pc, run, views, df, song_df, tables,
                   songplays_table, store, written>>

\* a file arrives under log_data/ before the run
IngestEvent ==
    /\ pc = "idle"
    /\ Len(events) < MaxEvents
    /\ \E r \in EventPool : events' = Append(events, r)
    /\ UNCHANGED <<catalog, tz, pc, run, views, df, song_df, tables,
                   songplays_table, store, written>>

\* main(): a fresh process and Spark session
Start ==
    /\ pc = "idle"
    /\ catalog # <<>>
    /\ events # <<>>
    /\ pc' = "read_song_data"
    /\ run' = run + 1
    /\ UNCHANGED <<catalog, events, tz, views, df, song_df, tables,
                   songplays_table, store, written>>

\* main() again after a finished or failed run: a fresh process and Spark
\* session, the output location keeps what the earlier runs wrote, and the
\* feeds may have grown meanwhile
Rerun ==
    /\ pc \in {"done", "failed"}
    /\ run < MaxRuns
    /\ catalog' \in {catalog} \cup
           {Append(catalog, r) : r \in {c \in CatalogPool : Len(catalog) < MaxCatalog}}
    /\ events' \in {events} \cup
           {Append(events, r) : r \in {e \in EventPool : Len(events) < MaxEvents}}
    /\ pc' = "read_song_data"
    /\ run' = run + 1
    /\ views' = [v \in ViewNames |-> <<>>]
    /\ df' = <<>>
    /\ song_df' = <<>>
    /\ tables' = [t \in DimNames |-> EmptyBag]
    /\ songplays_table' = <<>>
    /\ written' = <<>>
    /\ UNCHANGED <<tz, store>>

\* df = spark.read.json(song_data)
ReadSongData ==
    /\ pc = "read_song_data"
    /\ df' = catalog
    /\ pc' = "extract_songs"
    /\ UNCHANGED <<catalog, events, tz, run, views, song_df, tables,
                   songplays_table, store, written>>

ExtractSongs ==
    /\ pc = "extract_songs"
    /\ views' = [views EXCEPT !["songs_table"] = df]
    /\ \E t \in DistinctOn(ProjectAll(views'["songs_table"], SongCols), "song_id") :
          tables' = [tables EXCEPT !["songs"] = t]
    /\ pc' = "write_songs"
    /\ UNCHANGED <<catalog, events, tz, run, df, song_df, songplays_table,
                   store, written>>

\* one to_parquet call: it either persists the table or raises
Write(t, rows, next) ==
    \/ /\ store' = [store EXCEPT ![t] =
                       IF t \in {"songs", "time", "songplays"}
                       THEN WriteDataset(store[t], rows)
                       ELSE WriteFile(store[t], rows)]
       /\ written' = Append(written, t)
       /\ pc' = next
    \/ /\ pc' = OnWriteError(next)
       /\ UNCHANGED <<store, written>>

WriteSongs ==
    /\ pc = "write_songs"
    /\ Write("songs", tables["songs"], "extract_artists")
    /\ UNCHANGED <<catalog, events, tz, run, views, df, song_df, tables,
                   songplays_table>>

ExtractArtists ==
    /\ pc = "extract_artists"
    /\ views' = [views EXCEPT !["artists_table"] = df]
    /\ \E t \in DistinctOn(ProjectAll(views'["artists_table"], ArtistCols), "artist_id") :
          tables' = [tables EXCEPT !["artists"] = t]
    /\ pc' = "write_artists"
    /\ UNCHANGED <<catalog, events, tz, run, df, song_df, songplays_table,
                   store, written>>

WriteArtists ==
    /\ pc = "write_artists"
    /\ Write("artists", tables["artists"], "read_log_data")
    /\ UNCHANGED <<catalog, events, tz, run, views, df, song_df, tables,
                   songplays_table>>

\* df = spark.read.json(log_data); df = df[df["page"]=="NextSong"]
ReadLogData ==
    /\ pc = "read_log_data"
    /\ df' = NextSongFilter(events)
    /\ pc' = "extract_users"
    /\ UNCHANGED <<catalog, events, tz, run, views, song_df, tables,
                   songplays_table, store, written>>

ExtractUsers ==
    /\ pc = "extract_users"
    /\ views' = [views EXCEPT !["users_table"] = df]
    /\ \E t \in DistinctOn(ProjectAll(views'["users_table"], UserCols), "userId") :
          tables' = [tables EXCEPT !["users"] = t]
    /\ pc' = "write_users"
    /\ UNCHANGED <<catalog, events, tz, run, df, song_df, songplays_table,
                   store, written>>

WriteUsers ==
    /\ pc = "write_users"
    /\ Write("users", tables["users"], "add_time_columns")
    /\ UNCHANGED <<catalog, events, tz, run, views, df, song_df, tables,
                   songplays_table>>

\* the eight withColumn calls
AddTimeColumns ==
    /\ pc = "add_time_columns"
    /\ df' = [i \in DOMAIN df |-> WithTimeColumns(df[i], tz)]
    /\ pc' = "extract_time"
    /\ UNCHANGED <<catalog, events, tz, run, views, song_df, tables,
                   songplays_table, store, written>>

ExtractTime ==
    /\ pc = "extract_time"
    /\ views' = [views EXCEPT !["time_table"] = df]
    /\ \E t \in DistinctOn(ProjectAll(views'["time_table"], TimeCols), "start_time") :
          tables' = [tables EXCEPT !["time"] = t]
    /\ pc' = "write_time"
    /\ UNCHANGED <<catalog, events, tz, run, df, song_df, songplays_table,
                   store, written>>

WriteTime ==
    /\ pc = "write_time"
    /\ Write("time", tables["time"], "read_song_df")
    /\ UNCHANGED <<catalog, events, tz, run, views, df, song_df, tables,
                   songplays_table>>

\* song_df = spark.read.json(song_data); the view songs_table is rebound
ReadSongDf ==
    /\ pc = "read_song_df"
    /\ song_df' = catalog
    /\ views' = [views EXCEPT !["songs_table"] = song_df']
    /\ pc' = "assign_songplay_id"
    /\ UNCHANGED <<catalog, events, tz, run, df, tables, songplays_table,
                   store, written>>

AssignSongplayId ==
    /\ pc = "assign_songplay_id"
    /\ \E p \in Partitionings(Len(df)) : df' = WithSongplayId(df, p)
    /\ views' = [views EXCEPT !["songplays_table"] = df']
    /\ pc' = "join_songplays"
    /\ UNCHANGED <<catalog, events, tz, run, song_df, tables,
                   songplays_table, store, written>>

JoinSongplays ==
    /\ pc = "join_songplays"
    /\ songplays_table' = InnerJoin(views["songplays_table"], views["songs_table"])
    /\ pc' = "write_songplays"
    /\ UNCHANGED <<catalog, events, tz, run, views, df, song_df, tables,
                   store, written>>

WriteSongplays ==
    /\ pc = "write_songplays"
    /\ Write("songplays", BagOfSeq(songplays_table), "done")
    /\ UNCHANGED <<catalog, events, tz, run, views, df, song_df, tables,
                   songplays_table>>

Next ==
    \/ IngestCatalog
    \/ IngestEvent
    \/ Start
    \/ ReadSongData
    \/ ExtractSongs
    \/ WriteSongs
    \/ ExtractArtists
    \/ WriteArtists
    \/ ReadLogData
    \/ ExtractUsers
    \/ WriteUsers
    \/ AddTimeColumns
    \/ ExtractTime
    \/ WriteTime
    \/ ReadSongDf
    \/ AssignSongplayId
    \/ JoinSongplays
    \/ WriteSongplays

\* one run of the pipeline over any feeds, into an empty output location
Spec == Init /\ [][Next]_vars

NextRerun ==
    \/ Next
    \/ Rerun

\* up to MaxRuns runs into the same output location
SpecRerun == Init /\ [][NextRerun]_vars


\* ---------------------------------------------------------------- claims
Steps == <<"read_song_data", "extract_songs", "write_songs",
           "extract_artists", "write_artists", "read_log_data",
           "extract_users", "write_users", "add_time_columns",
           "extract_time", "write_time", "read_song_df",
           "assign_songplay_id", "join_songplays", "write_songplays", "done">>

StepIndex == [s \in Range(Steps) |-> CHOOSE i \in DOMAIN Steps : Steps[i] = s]

\* the step at position p of the run has been executed
Reached(p) == pc \in DOMAIN StepIndex /\ StepIndex[p] < StepIndex[pc]

PlayEvents == SelectSeq(events, LAMBDA e : e.page = "NextSong")

\* (artist, song, length) of event e equals (artist_name, title, duration)
\* of catalog row c, none of them NULL
TripleEq(e, c) ==
    /\ e.artist # <<>> /\ e.song # <<>> /\ e.length # <<>>
    /\ e.artist = c.artist_name
    /\ e.song = c.title
    /\ e.length = c.duration

FirstWith(rows, key, k) ==
    rows[CHOOSE i \in DOMAIN rows :
            rows[i][key] = k /\ \A j \in 1..(i - 1) : rows[j][key] # k]

\* C1: once process_song_data has run, songs holds exactly one row for
\* every distinct song_id of the catalog and artists exactly one row for
\* every distinct artist_id, and neither holds a row for any other key.
C1_OneRowPerSongAndArtist ==
    Reached("write_artists") =>
        /\ \A c \in Range(catalog) :
              /\ OneRowWithKey(tables["songs"], "song_id", c.song_id)
              /\ OneRowWithKey(tables["artists"], "artist_id", c.artist_id)
        /\ \A r \in BagToSet(tables["songs"]) :
              \E c \in Range(catalog) : c.song_id = r.song_id
        /\ \A r \in BagToSet(tables["artists"]) :
              \E c \in Range(catalog) : c.artist_id = r.artist_id

C1_Witness ==
    /\ Reached("write_artists")
    /\ \E i \in DOMAIN catalog : \E j \in DOMAIN catalog :
          /\ i # j
          /\ catalog[i] # catalog[j]
          /\ catalog[i].song_id = catalog[j].song_id
          /\ catalog[i].artist_id = catalog[j].artist_id

\* C2: once the users table is built, it holds exactly one row for every
\* userId of a NextSong event and no row for a userId that occurs only in
\* events of another page.
C2_UsersOfNextSong ==
    Reached("extract_users") =>
        /\ \A e \in Range(events) :
              e.page = "NextSong" =>
                  OneRowWithKey(tables["users"], "userId", e.userId)
        /\ \A r \in BagToSet(tables["users"]) :
              \E e \in Range(events) :
                  e.page = "NextSong" /\ e.userId = r.userId

C2_Witness ==
    /\ Reached("extract_users")
    /\ \E e \in Range(events) : e.page = "NextSong"
    /\ \E e \in Range(events) :
          /\ e.page # "NextSong"
          /\ \A f \in Range(events) : f.page = "NextSong" => f.userId # e.userId
          /\ NoRowWithKey(tables["users"], "userId", e.userId)

MatchingPairs ==
    {ij \in (DOMAIN events) \X (DOMAIN catalog) :
        events[ij[1]].page = "NextSong" /\ TripleEq(events[ij[1]], catalog[ij[2]])}

EveryPlayMatches ==
    \A e \in Range(PlayEvents) : \E c \in Range(catalog) : TripleEq(e, c)

TriplesUnique ==
    \A i \in DOMAIN catalog : \A j \in DOMAIN catalog :
        (i # j) => ~ ( /\ catalog[i].artist_name = catalog[j].artist_name
                       /\ catalog[i].title = catalog[j].title
                       /\ catalog[i].duration = catalog[j].duration )

\* C3 as stated: the songplays table has at most as many rows as there are
\* NextSong events, and as many only when every NextSong event matches a
\* catalog row, whatever the catalog.
C3_Original ==
    Reached("join_songplays") =>
        /\ Len(songplays_table) <= Len(PlayEvents)
        /\ (Len(songplays_table) = Len(PlayEvents) => EveryPlayMatches)

\* C3 amended: the songplays table has one row per pair of a NextSong event
\* and a catalog row with equal (artist, song, length); when no two catalog
\* rows share (artist_name, title, duration) that is at most the number of
\* NextSong events, and equal to it only when every NextSong event matches.
C3_RowsArePairs ==
    Reached("join_songplays") =>
        /\ Len(songplays_table) = Cardinality(MatchingPairs)
        /\ TriplesUnique =>
              /\ Len(songplays_table) <= Len(PlayEvents)
              /\ (Len(songplays_table) = Len(PlayEvents) => EveryPlayMatches)

C3_Witness ==
    /\ Reached("join_songplays")
    /\ ~TriplesUnique
    /\ Len(songplays_table) > Len(PlayEvents)

\* C4 as stated: songplay_id is strictly increasing along the emitted
\* songplays rows, so no two rows share one.
C4_Original ==
    Reached("join_songplays") =>
        \A i \in DOMAIN songplays_table : \A j \in DOMAIN songplays_table :
            i < j => IdLess(songplays_table[i].songplay_id,
                            songplays_table[j].songplay_id)

\* C5: every songplays row comes from a NextSong event and a catalog row
\* equal on artist, song and length, and carries that row's ids; an event
\* without such a catalog row contributes no row; only NextSong events
\* enter the join.
C5_StrictInnerJoin ==
    Reached("join_songplays") =>
        /\ \A r \in Range(songplays_table) :
              \E sp \in Range(df) : \E c \in Range(catalog) :
                  /\ sp.page = "NextSong"
                  /\ TripleEq(sp, c)
                  /\ r.songplay_id = sp.songplay_id
                  /\ r.user_id = sp.userId
                  /\ r.song_id = c.song_id
                  /\ r.artist_id = c.artist_id
        /\ \A sp \in Range(df) :
              /\ sp.page = "NextSong"
              /\ (~ \E c \in Range(catalog) : TripleEq(sp, c)) =>
                     \A r \in Range(songplays_table) :
                         r.songplay_id # sp.songplay_id

C5_Witness ==
    /\ Reached("join_songplays")
    /\ songplays_table # <<>>
    /\ \E sp \in Range(df) : \E c \in Range(catalog) :
          /\ sp.artist = c.artist_name
          /\ sp.song = c.title
          /\ sp.length # c.duration
          /\ \A r \in Range(songplays_table) : r.songplay_id # sp.songplay_id

TimedPlayEvents ==
    [i \in DOMAIN PlayEvents |-> WithTimeColumns(PlayEvents[i], tz)]

KeptRowsAreFirstSeen ==
    /\ Reached("extract_songs") =>
          \A r \in BagToSet(tables["songs"]) :
              r = Project(FirstWith(catalog, "song_id", r.song_id), SongCols)
    /\ Reached("extract_artists") =>
          \A r \in BagToSet(tables["artists"]) :
              r = Project(FirstWith(catalog, "artist_id", r.artist_id), ArtistCols)
    /\ Reached("extract_users") =>
          \A r \in BagToSet(tables["users"]) :
              r = Project(FirstWith(PlayEvents, "userId", r.userId), UserCols)
    /\ Reached("extract_time") =>
          \A r \in BagToSet(tables["time"]) :
              r = Project(FirstWith(TimedPlayEvents, "start_time", r.start_time),
                          TimeCols)

\* C6 as stated: the row kept for a key of songs, artists, users or time
\* carries the attributes of the first record with that key in ingestion
\* order.
C6_Original == KeptRowsAreFirstSeen

\* C6 amended: the row kept for a key of songs, artists, users or time is
\* the projection of one of the records with that key, all its attributes
\* from the same record; which record is not determined, so the users row
\* of a user whose level changes carries the level of one of that user's
\* NextSong events.
C6_KeptRowIsSomeRecord ==
    /\ Reached("extract_songs") =>
          \A r \in BagToSet(tables["songs"]) :
              \E c \in Range(catalog) : r = Project(c, SongCols)
    /\ Reached("extract_artists") =>
          \A r \in BagToSet(tables["artists"]) :
              \E c \in Range(catalog) : r = Project(c, ArtistCols)
    /\ Reached("extract_users") =>
          \A r \in BagToSet(tables["users"]) :
              \E e \in Range(PlayEvents) : r = Project(e, UserCols)
    /\ Reached("extract_time") =>
          \A r \in BagToSet(tables["time"]) :
              \E e \in Range(PlayEvents) :
                  r = Project(WithTimeColumns(e, tz), TimeCols)

C6_Witness ==
    /\ pc = "done"
    /\ \E r \in BagToSet(tables["users"]) :
          r.level # FirstWith(PlayEvents, "userId", r.userId).level
    /\ \E r \in BagToSet(tables["songs"]) :
          r # Project(FirstWith(catalog, "song_id", r.song_id), SongCols)

\* C7 as stated: after a successful run every persisted table holds exactly
\* the rows that run computed, whatever the output location held before.
C7_Original ==
    pc = "done" =>
        /\ \A t \in DimNames : store[t] = tables[t]
        /\ store["songplays"] = BagOfSeq(songplays_table)

InMemory(t) ==
    IF t = "songplays" THEN BagOfSeq(songplays_table) ELSE tables[t]

WritesInOrder ==
    /\ Len(written) <= Len(TableOrder)
    /\ \A i \in DOMAIN written : written[i] = TableOrder[i]
    /\ \A t \in TableNames :
          store[t] = IF t \in Range(written) THEN InMemory(t) ELSE EmptyBag
    /\ pc = "done" => written = TableOrder
    /\ \A i \in DOMAIN written :
          Reached("write_" \o TableOrder[i]) \/ pc = "failed"

\* C8: the tables are written in the order songs, artists, users, time,
\* songplays, each from its materialized rows; a failed write ends the
\* run: nothing is done after it, the tables written before it keep what
\* was written and the later ones are not written.
C8_WriteOrderAndAbort ==
    /\ []WritesInOrder
    /\ [][pc # "failed"]_vars

C8_Witness ==
    /\ pc = "failed"
    /\ Len(written) >= 1
    /\ store["songs"] # EmptyBag
    /\ store["songplays"] = EmptyBag

\* C9: for every songplays row the time table holds exactly one row with
\* its start_time, and that row has the songplays row's year and month.
C9_TimeRowPerSongplay ==
    Reached("join_songplays") =>
        \A r \in Range(songplays_table) :
            /\ OneRowWithKey(tables["time"], "start_time", r.start_time)
            /\ \A t \in BagToSet(tables["time"]) :
                  t.start_time = r.start_time =>
                      t.year = r.year /\ t.month = r.month

C9_Witness ==
    /\ Reached("join_songplays")
    /\ \E i \in DOMAIN df : \E j \in DOMAIN df :
          /\ df[i].ts # df[j].ts
          /\ df[i].start_time = df[j].start_time
          /\ \E r \in Range(songplays_table) : r.songplay_id = df[i].songplay_id
          /\ \E r \in Range(songplays_table) : r.songplay_id = df[j].songplay_id

\* C10: after a successful run every songplays row has a song_id that is a
\* key of the songs table, an artist_id that is a key of the artists table
\* and a user_id that is a key of the users table.
C10_ForeignKeys ==
    pc = "done" =>
        \A r \in Range(songplays_table) :
            /\ r.song_id # "null"
            /\ r.artist_id # "null"
            /\ OneRowWithKey(tables["songs"], "song_id", r.song_id)
            /\ OneRowWithKey(tables["artists"], "artist_id", r.artist_id)
            /\ OneRowWithKey(tables["users"], "userId", r.user_id)
            /\ OneRowWithKey(store["songs"], "song_id", r.song_id)
            /\ OneRowWithKey(store["artists"], "artist_id", r.artist_id)
            /\ OneRowWithKey(store["users"], "userId", r.user_id)

C10_Witness ==
    /\ pc = "done"
    /\ songplays_table # <<>>
    /\ Len(views["songs_table"]) > BagCardinality(tables["songs"])

====
